---- MODULE Spec2Model ----
(***************************************************************************)
(* octasox: load() reads a packed, big-endian Octatrack .ot record into    *)
(* an ot::OTData overlay and main() prints one sox "trim" line per slice.  *)
(* Memory is modelled as bytes, so that the struct layout, the host byte   *)
(* order and ntohl/ntohs are explicit.  A 32-bit value is written as its   *)
(* four base-256 digits, most significant first (a "word"), a 16-bit value *)
(* as two digits (a "half").                                               *)
(***************************************************************************)
EXTENDS Integers, Sequences, FiniteSets, TLC

\* ---------------------------------------------------------------- bounds
MaxArgs == 2
\* bytes of main's stack frame that lie behind `data` and are modelled
StackSlack == 80

\* ------------------------------------------------- layout of ot::OTData
HeaderLen == 16
UnknownLen == 7
NumSlices == 64
SizeofSlice == 4 + 4 + 4
OffTempo == HeaderLen + UnknownLen
OffTrimLen == OffTempo + 4
OffLoopLen == OffTrimLen + 4
OffStretch == OffLoopLen + 4
OffLoop == OffStretch + 4
OffGain == OffLoop + 4
OffQuantize == OffGain + 2
OffTrimStart == OffQuantize + 1
OffTrimEnd == OffTrimStart + 4
OffLoopPoint == OffTrimEnd + 4
OffSlices == OffLoopPoint + 4
OffSliceCount == OffSlices + NumSlices * SizeofSlice
OffCheckSum == OffSliceCount + 4
SizeofOTData == OffCheckSum + 2
MemSize == SizeofOTData + StackSlack

\* offset of slices[i]; for i >= NumSlices it lies behind the array
SliceOff(i) == OffSlices + i * SizeofSlice

header_bytes == <<70, 79, 82, 77, 0, 0, 0, 0, 68, 80, 83, 49, 83, 77, 80, 65>>
unknown_bytes == <<0, 0, 0, 0, 0, 2, 0>>

\* the uint32_t fields load() converts, in the order of lines 150-159
ScalarOffs32 == <<OffTempo, OffTrimLen, OffLoopLen, OffStretch, OffLoop,
                  OffTrimStart, OffTrimEnd, OffLoopPoint, OffSliceCount>>
\* the uint16_t fields load() converts (lines 155, 160)
ScalarOffs16 == <<OffGain, OffCheckSum>>

\* --------------------------------------------------------------- strings
DigitChars == <<"0", "1", "2", "3", "4", "5", "6", "7", "8", "9">>
DotOt == <<".", "o", "t">>
DotWav == <<".", "w", "a", "v">>
NotValidMsg == <<" This is not a valid .ot file">>

RECURSIVE Dec(_)
\* operator<<(uint32_t): decimal digits, no padding
Dec(n) == IF n < 10 THEN <<DigitChars[n + 1]>>
          ELSE Dec(n \div 10) \o <<DigitChars[(n % 10) + 1]>>

\* std::setw(2) << std::setfill('0') << i
Pad2(n) == IF Len(Dec(n)) < 2 THEN <<"0">> \o Dec(n) ELSE Dec(n)

\* settingsFile.size() < 3 || settingsFile.substr(size-3) != ".ot", negated
IsOt(file) == /\ ~(Len(file) < 3)
              /\ SubSeq(file, Len(file) - 2, Len(file)) = DotOt

\* settingsFile.substr(0, settingsFile.size()-3)
BaseName(file) == SubSeq(file, 1, Len(file) - 3)

\* ------------------------------------------------------------ the inputs
Byte == 0..255

\* big-endian digits of a number below 2^31
ToWord(n) == <<n \div 16777216, (n \div 65536) % 256, (n \div 256) % 256, n % 256>>
ToHalf(n) == <<(n \div 256) % 256, n % 256>>

\* bytes of slots the sampler left stale (no byte pattern is a palindrome)
StaleByte(k) == (k * 7 + 3) % 256

\* the on-disk image of a record: every multi-byte field big-endian,
\* slots from Len(r.slices) on stale
Image(r) ==
  [k \in 0..(SizeofOTData - 1) |->
     IF k < HeaderLen THEN header_bytes[k + 1]
     ELSE IF k < OffTempo THEN unknown_bytes[k - HeaderLen + 1]
     ELSE IF k < OffTrimLen THEN ToWord(r.tempo)[k - OffTempo + 1]
     ELSE IF k < OffLoopLen THEN ToWord(r.trimLen)[k - OffTrimLen + 1]
     ELSE IF k < OffStretch THEN ToWord(r.loopLen)[k - OffLoopLen + 1]
     ELSE IF k < OffLoop THEN ToWord(r.stretch)[k - OffStretch + 1]
     ELSE IF k < OffGain THEN ToWord(r.loop)[k - OffLoop + 1]
     ELSE IF k < OffQuantize THEN ToHalf(r.gain)[k - OffGain + 1]
     ELSE IF k < OffTrimStart THEN r.quantize
     ELSE IF k < OffTrimEnd THEN ToWord(r.trimStart)[k - OffTrimStart + 1]
     ELSE IF k < OffLoopPoint THEN ToWord(r.trimEnd)[k - OffTrimEnd + 1]
     ELSE IF k < OffSlices THEN ToWord(r.loopPoint)[k - OffLoopPoint + 1]
     ELSE IF k < OffSliceCount THEN
       LET idx == (k - OffSlices) \div SizeofSlice
           w == (k - OffSlices) % SizeofSlice
       IN IF idx < Len(r.slices)
          THEN ToWord(r.slices[idx + 1][(w \div 4) + 1])[(w % 4) + 1]
          ELSE StaleByte(k)
     ELSE IF k < OffCheckSum THEN ToWord(r.sliceCount)[k - OffSliceCount + 1]
     ELSE ToHalf(r.checkSum)[k - OffCheckSum + 1]]

\* slice j of the generated records: <<startPoint, endPoint, loopPoint>>
GenSlice(j) == <<1000 * j + 126, 1000 * j + 900, 1000 * j + 400>>

Rec(tempo, slices, count) ==
  [tempo |-> tempo, trimLen |-> 73100, loopLen |-> 400, stretch |-> 2,
   loop |-> 1, gain |-> 48, quantize |-> 255, trimStart |-> 126,
   trimEnd |-> 1500000000, loopPoint |-> 200,
   slices |-> slices, sliceCount |-> count, checkSum |-> 41377]

\* the record of the README line "AmnKC.wav AmnKC00.wav trim 126s =8872s"
RecA == Rec(1440, << <<126, 8872, 0>>, <<9000, 15000, 0>> >>, 2)
RecZ == Rec(2880, << >>, 0)
RecF == Rec(1440, [j \in 1..NumSlices |-> GenSlice(j)], NumSlices)
\* a count above the capacity of slices[]
RecX == Rec(1440, [j \in 1..NumSlices |-> GenSlice(j)], 70)

File_a == <<"a", ".", "o", "t">>
File_z == <<"z", ".", "o", "t">>
File_f == <<"f", ".", "o", "t">>
File_x == <<"x", ".", "o", "t">>
File_s == <<"s", ".", "o", "t">>
File_l == <<"l", ".", "o", "t">>
File_m == <<"m", ".", "o", "t">>
File_wav == <<"a", ".", "w", "a", "v">>
File_ot == <<"o", "t">>

FileNames == {File_a, File_z, File_f, File_x, File_s, File_l, File_m,
              File_wav, File_ot}

\* the records behind the well-formed files
Records == (File_a :> RecA) @@ (File_z :> RecZ) @@ (File_f :> RecF)
           @@ (File_x :> RecX)

\* the file system: m.ot does not exist, s.ot is two bytes short, l.ot one
\* byte long
Exists(file) == file \in {File_a, File_z, File_f, File_x, File_s, File_l, File_wav}

Disk == [file \in FileNames |->
  IF file \in DOMAIN Records THEN Image(Records[file])
  ELSE IF file = File_s THEN [k \in 0..(SizeofOTData - 3) |-> Image(RecA)[k]]
  ELSE IF file = File_l
       THEN [k \in 0..SizeofOTData |->
               IF k < SizeofOTData THEN Image(RecA)[k] ELSE 0]
  ELSE [k \in {} |-> 0]]

FileSize(file) == Cardinality(DOMAIN Disk[file])

\* byte counts a read of the record may deliver short of the whole record:
\* an error on the first byte, a file cut behind sliceCount
ShortReads == {0, OffCheckSum}

\* what main's frame holds where `data` is placed and behind it, before
\* anything is stored there
FrameByte(k) == (k * 11 + 5) % 256

\* ----------------------------------------------------------------- state
VARIABLES
  argv,          \* argv[1..argc-1], each a sequence of characters
  littleEndian,  \* byte order of the host the program was built for
  pc,            \* position in main()/load()
  s,             \* main's loop variable over the arguments
  i,             \* the loop variable of the slice loops
  data,          \* the bytes of `ot::OTData data` and of the frame behind it
  f,             \* the std::ifstream of load(): [state, gcount]
  numBytes,      \* load's numBytes
  out,           \* the lines written to std::cout
  err,           \* the lines written to std::cerr
  outMark,       \* Len(out) when the body of main's loop was entered
  thrown,        \* the exception in flight, or NoError
  exitStatus     \* "running", "0", "1", "abort" (std::terminate), "segv"

vars == <<argv, littleEndian, pc, s, i, data, f, numBytes, out, err, outMark,
          thrown, exitStatus>>

NoError == [type |-> "none", what |-> << >>]
Argc == Len(argv) + 1

\* --------------------------------------------------- byte order, fields
\* the value of the uint32_t lvalue at offset off
Native32(m, off) ==
  IF littleEndian THEN <<m[off + 3], m[off + 2], m[off + 1], m[off]>>
  ELSE <<m[off], m[off + 1], m[off + 2], m[off + 3]>>

Native16(m, off) ==
  IF littleEndian THEN <<m[off + 1], m[off]>> ELSE <<m[off], m[off + 1]>>

\* assignment of the value w to the uint32_t lvalue at offset off
Store32(m, off, w) ==
  IF littleEndian
  THEN [m EXCEPT ![off] = w[4], ![off + 1] = w[3], ![off + 2] = w[2], ![off + 3] = w[1]]
  ELSE [m EXCEPT ![off] = w[1], ![off + 1] = w[2], ![off + 2] = w[3], ![off + 3] = w[4]]

Store16(m, off, h) ==
  IF littleEndian THEN [m EXCEPT ![off] = h[2], ![off + 1] = h[1]]
  ELSE [m EXCEPT ![off] = h[1], ![off + 1] = h[2]]

Ntohl_Identity(w) == w

\* ntohl: a byte swap on a little-endian host, the identity on a big-endian
Ntohl(w) == IF littleEndian THEN <<w[4], w[3], w[2], w[1]>> ELSE w

Ntohs(h) == IF littleEndian THEN <<h[2], h[1]>> ELSE h

\* x = ntohl(x) for the uint32_t at off
Convert32(m, off) == Store32(m, off, Ntohl(Native32(m, off)))
Convert16(m, off) == Store16(m, off, Ntohs(Native16(m, off)))

RECURSIVE ConvertAll32(_, _, _)
ConvertAll32(m, offs, k) ==
  IF k > Len(offs) THEN m ELSE ConvertAll32(Convert32(m, offs[k]), offs, k + 1)

RECURSIVE ConvertAll16(_, _, _)
ConvertAll16(m, offs, k) ==
  IF k > Len(offs) THEN m ELSE ConvertAll16(Convert16(m, offs[k]), offs, k + 1)

\* lines 150-160
ConvertScalars(m) == ConvertAll16(ConvertAll32(m, ScalarOffs32, 1), ScalarOffs16, 1)

\* lines 164-167, for slices[n]
ConvertSlice(m, n) ==
  Convert32(Convert32(Convert32(m, SliceOff(n)), SliceOff(n) + 4), SliceOff(n) + 8)

\* n < w for a small n and a 32-bit w
ULess(n, w) == w[1] # 0 \/ w[2] # 0 \/ n < w[3] * 256 + w[4]

SizeMismatch_AcceptLonger(n) == n < SizeofOTData

\* numBytes != sizeof(ot::OTData)
SizeMismatch(n) == n # SizeofOTData

SliceLoopCond_Inclusive(n, m) ==
  LET w == Native32(m, OffSliceCount)
  IN w[1] # 0 \/ w[2] # 0 \/ n <= w[3] * 256 + w[4]

\* i < data.sliceCount in load
SliceLoopCond(n, m) == ULess(n, Native32(m, OffSliceCount))

\* i < data.sliceCount in main
EmitLoopCond(n, m) == ULess(n, Native32(m, OffSliceCount))

\* slices[n] lies inside the modelled part of the frame
InFrame(n) == SliceOff(n) + SizeofSlice <= MemSize

Line_LoopPoint(file, n, m) ==
  [input |-> BaseName(file) \o DotWav,
   output |-> BaseName(file) \o Pad2(n) \o DotWav,
   start |-> Native32(m, SliceOff(n)),
   end |-> Native32(m, SliceOff(n) + 8)]

\* the line "<input> <output> trim <start>s =<end>s" for slice n
Line(file, n, m) ==
  [input |-> BaseName(file) \o DotWav,
   output |-> BaseName(file) \o Pad2(n) \o DotWav,
   start |-> Native32(m, SliceOff(n)),
   end |-> Native32(m, SliceOff(n) + 4)]

RECURSIVE ConvertSlices(_, _)
\* the loop of lines 162-168 run from index n while it stays inside
\* slices[]: the record and the index it stops at
ConvertSlices(m, n) ==
  IF SliceLoopCond(n, m) /\ n < NumSlices
  THEN ConvertSlices(ConvertSlice(m, n), n + 1)
  ELSE <<m, n>>

RECURSIVE EmitSlices(_, _, _, _)
\* the loop of lines 196-209 run from index n while it stays inside
\* slices[]: the output and the index it stops at
EmitSlices(o, file, m, n) ==
  IF EmitLoopCond(n, m) /\ n < NumSlices
  THEN EmitSlices(Append(o, Line(file, n, m)), file, m, n + 1)
  ELSE <<o, n>>

\* std::runtime_error(std::string(file)+" This is not a valid .ot file")
FormatError(file) == [type |-> "std::runtime_error", what |-> file \o NotValidMsg]

ReadOutcomes(n) == {n} \cup {k \in ShortReads : k < n}

\* ------------------------------------------------------------------ Init
Init ==
  /\ argv \in UNION {[1..n -> FileNames] : n \in 0..MaxArgs}
  /\ littleEndian \in BOOLEAN
  /\ pc = "main"
  /\ s = 0
  /\ i = 0
  /\ data = [k \in 0..(MemSize - 1) |-> FrameByte(k)]
  /\ f = [state |-> "none", gcount |-> 0]
  /\ numBytes = 0
  /\ out = << >>
  /\ err = << >>
  /\ outMark = 0
  /\ thrown = NoError
  /\ exitStatus = "running"

\* --------------------------------------------------------------- actions
\* argc < 2: usage, return 1
MainUsage ==
  /\ pc = "main" /\ Argc < 2
  /\ err' = Append(err, <<"usage: octasox OTFILE [ OTFILE ...]">>)
  /\ exitStatus' = "1"
  /\ pc' = "done"
  /\ UNCHANGED <<argv, littleEndian, s, i, data, f, numBytes, out, outMark, thrown>>

\* preset = 0; s = 1
MainBegin ==
  /\ pc = "main" /\ ~(Argc < 2)
  /\ s' = 1
  /\ pc' = "for"
  /\ UNCHANGED <<argv, littleEndian, i, data, f, numBytes, out, err, outMark,
                 thrown, exitStatus>>

\* the extension test fails: "Skipping ...", continue
MainSkip ==
  /\ pc = "for" /\ s < Argc /\ ~IsOt(argv[s])
  /\ err' = Append(err, <<"Skipping ">> \o argv[s]
                          \o <<": Only .ot files are supported.">>)
  /\ outMark' = Len(out)
  /\ pc' = "next"
  /\ UNCHANGED <<argv, littleEndian, s, i, data, f, numBytes, out, thrown, exitStatus>>

\* ++s
MainNext ==
  /\ pc = "next"
  /\ s' = s + 1
  /\ pc' = "for"
  /\ UNCHANGED <<argv, littleEndian, i, data, f, numBytes, out, err, outMark,
                 thrown, exitStatus>>

\* s < argc fails: return 0
MainReturn ==
  /\ pc = "for" /\ ~(s < Argc)
  /\ exitStatus' = "0"
  /\ pc' = "done"
  /\ UNCHANGED <<argv, littleEndian, s, i, data, f, numBytes, out, err, outMark, thrown>>

\* load, lines 132-140: zero the record, open the stream, measure the file.
\* On a stream that failed to open both tellg() return -1: numBytes = 0.
LoadOpen ==
  /\ pc = "for" /\ s < Argc /\ IsOt(argv[s])
  /\ data' = [k \in DOMAIN data |-> IF k < SizeofOTData THEN 0 ELSE data[k]]
  /\ f' = [state |-> IF Exists(argv[s]) THEN "open" ELSE "failed", gcount |-> 0]
  /\ numBytes' = IF Exists(argv[s]) THEN FileSize(argv[s]) ELSE 0
  /\ outMark' = Len(out)
  /\ pc' = "load_check"
  /\ UNCHANGED <<argv, littleEndian, s, i, out, err, thrown, exitStatus>>

\* lines 142-143: throw std::runtime_error.  main has no handler, so
\* std::terminate is called; whether the stack is unwound first (and f's
\* destructor closes the file) is implementation-defined.
LoadThrow ==
  /\ pc = "load_check" /\ SizeMismatch(numBytes)
  /\ thrown' = FormatError(argv[s])
  /\ \E unwound \in BOOLEAN :
       f' = IF unwound /\ f.state = "open" THEN [f EXCEPT !.state = "closed"] ELSE f
  /\ exitStatus' = "abort"
  /\ pc' = "done"
  /\ UNCHANGED <<argv, littleEndian, s, i, data, numBytes, out, err, outMark>>

\* lines 145-147: seekg(0), read(numBytes), close().  The read delivers k
\* bytes; a short read sets failbit, which nothing tests.
LoadRead ==
  /\ pc = "load_check" /\ ~SizeMismatch(numBytes)
  /\ \E k \in ReadOutcomes(numBytes) :
       /\ data' = [j \in DOMAIN data |-> IF j < k THEN Disk[argv[s]][j] ELSE data[j]]
       /\ f' = [state |-> "closed", gcount |-> k]
  /\ pc' = "load_scalars"
  /\ UNCHANGED <<argv, littleEndian, s, i, numBytes, out, err, outMark, thrown, exitStatus>>

\* lines 150-160, and i = 0 of line 162
LoadScalars ==
  /\ pc = "load_scalars"
  /\ data' = ConvertScalars(data)
  /\ i' = 0
  /\ pc' = "load_slices"
  /\ UNCHANGED <<argv, littleEndian, s, f, numBytes, out, err, outMark, thrown, exitStatus>>

\* the iterations of lines 162-168 that stay inside slices[], from i on
LoadSlice ==
  /\ pc = "load_slices" /\ SliceLoopCond(i, data) /\ i < NumSlices
  /\ LET r == ConvertSlices(data, i)
     IN data' = r[1] /\ i' = r[2]
  /\ UNCHANGED <<argv, littleEndian, pc, s, f, numBytes, out, err, outMark, thrown, exitStatus>>

\* one iteration of lines 162-168 behind slices[]: undefined behaviour.
\* The access faults, or it lands where the layout puts it: slices[64]
\* overlays sliceCount, checkSum and what follows the record.  The part of
\* the frame that is not modelled ends in the fault.
LoadSliceOutOfBounds ==
  /\ pc = "load_slices" /\ SliceLoopCond(i, data) /\ ~(i < NumSlices)
  /\ \/ /\ exitStatus' = "segv"
        /\ pc' = "done"
        /\ UNCHANGED <<data, i>>
     \/ /\ InFrame(i)
        /\ data' = ConvertSlice(data, i)
        /\ i' = i + 1
        /\ UNCHANGED <<pc, exitStatus>>
  /\ UNCHANGED <<argv, littleEndian, s, f, numBytes, out, err, outMark, thrown>>

\* the loop of load ends, load returns; i = 0 of line 196
LoadReturn ==
  /\ pc = "load_slices" /\ ~SliceLoopCond(i, data)
  /\ i' = 0
  /\ pc' = "emit"
  /\ UNCHANGED <<argv, littleEndian, s, data, f, numBytes, out, err, outMark,
                 thrown, exitStatus>>

\* the iterations of lines 196-209 that stay inside slices[], from i on
EmitSlice ==
  /\ pc = "emit" /\ EmitLoopCond(i, data) /\ i < NumSlices
  /\ LET r == EmitSlices(out, argv[s], data, i)
     IN out' = r[1] /\ i' = r[2]
  /\ UNCHANGED <<argv, littleEndian, pc, s, data, f, numBytes, err, outMark,
                 thrown, exitStatus>>

\* one iteration of lines 196-209 behind slices[]: undefined behaviour, a
\* fault or a line made of what lies behind the array
EmitSliceOutOfBounds ==
  /\ pc = "emit" /\ EmitLoopCond(i, data) /\ ~(i < NumSlices)
  /\ \/ /\ exitStatus' = "segv"
        /\ pc' = "done"
        /\ UNCHANGED <<out, i>>
     \/ /\ InFrame(i)
        /\ out' = Append(out, Line(argv[s], i, data))
        /\ i' = i + 1
        /\ UNCHANGED <<pc, exitStatus>>
  /\ UNCHANGED <<argv, littleEndian, s, data, f, numBytes, err, outMark, thrown>>

\* the loop of line 196 ends
EmitDone ==
  /\ pc = "emit" /\ ~EmitLoopCond(i, data)
  /\ pc' = "next"
  /\ UNCHANGED <<argv, littleEndian, s, i, data, f, numBytes, out, err, outMark,
                 thrown, exitStatus>>

Next ==
  \/ MainUsage \/ MainBegin \/ MainSkip \/ MainNext \/ MainReturn
  \/ LoadOpen \/ LoadThrow \/ LoadRead \/ LoadScalars
  \/ LoadSlice \/ LoadSliceOutOfBounds \/ LoadReturn
  \/ EmitSlice \/ EmitSliceOutOfBounds \/ EmitDone

Spec == Init /\ [][Next]_vars

\* ---------------------------------------------------------------- claims
\* the argument the body of main's loop is working on
Cur == argv[s]

\* load has passed its length check for Cur
PassedCheck ==
  \/ pc \in {"load_scalars", "load_slices", "emit"}
  \/ pc = "next" /\ IsOt(Cur)

\* load has returned a record for Cur
Returned == pc = "emit" \/ (pc = "next" /\ IsOt(Cur))

\* the read of line 146 delivered the whole record
FullRead == f.gcount = SizeofOTData

\* Cur is a record written big-endian with sliceCount <= 64
WellFormed == Cur \in DOMAIN Records /\ Records[Cur].sliceCount <= NumSlices

\* the lines written for Cur so far
CurLines == SubSeq(out, outMark + 1, Len(out))

DigitVal(c) == CHOOSE d \in 0..9 : DigitChars[d + 1] = c

RECURSIVE ParseDec(_)
ParseDec(ds) ==
  IF Len(ds) = 0 THEN 0
  ELSE 10 * ParseDec(SubSeq(ds, 1, Len(ds) - 1)) + DigitVal(ds[Len(ds)])

\* the index a line's output file name carries between base name and ".wav"
IndexDigits(l, file) ==
  SubSeq(l.output, Len(BaseName(file)) + 1, Len(l.output) - Len(DotWav))

\* C1 (as stated): a file passes the length check of load only if it is
\* exactly 830 bytes long, and a file of any other length ends in the
\* format error with no record and no output line.
C1_SizeGate830 ==
  /\ PassedCheck => (Exists(Cur) /\ FileSize(Cur) = 830)
  /\ thrown # NoError =>
       /\ ~(Exists(Cur) /\ FileSize(Cur) = 830)
       /\ Len(out) = outMark

\* C1 (amended): a file passes the length check of load only if it is
\* exactly 832 bytes long (the packed size of the record); a file of any
\* other length ends in the format error, the record stays zeroed and no
\* output line is written for it.
C1_SizeGate832 ==
  /\ PassedCheck => (Exists(Cur) /\ FileSize(Cur) = 832)
  /\ thrown # NoError =>
       /\ ~(Exists(Cur) /\ FileSize(Cur) = 832)
       /\ thrown = FormatError(Cur)
       /\ \A k \in 0..(SizeofOTData - 1) : data[k] = 0
       /\ Len(out) = outMark

\* an 830-byte file has been rejected
C1_Witness ==
  /\ thrown # NoError
  /\ Exists(Cur) /\ FileSize(Cur) = 830
  /\ exitStatus = "abort"

\* C2: the number of lines written for a loaded record is min(sliceCount,
\* 64) once its loop has ended, and never exceeds 64.
C2_Clamp ==
  (Returned /\ FullRead /\ Cur \in DOMAIN Records) =>
     LET n == Records[Cur].sliceCount
     IN /\ Len(CurLines) <= NumSlices
        /\ pc = "next" => Len(CurLines) = (IF n < NumSlices THEN n ELSE NumSlices)

\* C3: a failed load leaves no output line of the failed file and, while
\* a .ot argument remains behind it, does not end the run.
C3_FailureDoesNotAbort ==
  thrown # NoError =>
    /\ Len(out) = outMark
    /\ (\E k \in (s + 1)..Len(argv) : IsOt(argv[k])) => exitStatus = "running"

\* C4: after load has returned for a well-formed record that was read
\* whole, every converted scalar and every field of the slices below
\* sliceCount holds, as a native value, the number that was encoded.
C4_RoundTrip ==
  (Returned /\ FullRead /\ WellFormed) =>
     LET r == Records[Cur]
     IN /\ Native32(data, OffTempo) = ToWord(r.tempo)
        /\ Native32(data, OffTrimLen) = ToWord(r.trimLen)
        /\ Native32(data, OffLoopLen) = ToWord(r.loopLen)
        /\ Native32(data, OffStretch) = ToWord(r.stretch)
        /\ Native32(data, OffLoop) = ToWord(r.loop)
        /\ Native16(data, OffGain) = ToHalf(r.gain)
        /\ Native32(data, OffTrimStart) = ToWord(r.trimStart)
        /\ Native32(data, OffTrimEnd) = ToWord(r.trimEnd)
        /\ Native32(data, OffLoopPoint) = ToWord(r.loopPoint)
        /\ Native32(data, OffSliceCount) = ToWord(r.sliceCount)
        /\ Native16(data, OffCheckSum) = ToHalf(r.checkSum)
        /\ \A j \in 1..r.sliceCount : \A c \in 1..3 :
             Native32(data, SliceOff(j - 1) + 4 * (c - 1)) = ToWord(r.slices[j][c])

\* on a little-endian host the tempo bytes 00 00 05 A0 were read as 1440
C4_Witness ==
  /\ pc = "emit" /\ littleEndian /\ Cur = File_a /\ FullRead
  /\ [k \in 0..3 |-> Disk[Cur][OffTempo + k]] = [k \in 0..3 |-> <<0, 0, 5, 160>>[k + 1]]
  /\ Native32(data, OffTempo) = ToWord(1440)

\* C5: for a record with sliceCount = n <= 64 that was read whole, the
\* lines written for it are n once the loop has ended (i while it runs),
\* the j-th carries index j-1 and startPoint and endPoint of slices[j-1],
\* and no error is raised.
C5_Descriptors ==
  (Returned /\ FullRead /\ WellFormed) =>
     LET r == Records[Cur]
     IN /\ Len(CurLines) = (IF pc = "emit" THEN i ELSE r.sliceCount)
        /\ Len(CurLines) <= r.sliceCount
        /\ \A j \in 1..Len(CurLines) :
             LET l == CurLines[j]
             IN /\ l.input = BaseName(Cur) \o DotWav
                /\ SubSeq(l.output, 1, Len(BaseName(Cur))) = BaseName(Cur)
                /\ SubSeq(l.output, Len(l.output) - 3, Len(l.output)) = DotWav
                /\ Len(IndexDigits(l, Cur)) >= 2
                /\ ParseDec(IndexDigits(l, Cur)) = j - 1
                /\ l.start = ToWord(r.slices[j][1])
                /\ l.end = ToWord(r.slices[j][2])
        /\ thrown = NoError
        /\ exitStatus = "running"

\* both lines of the two-slice record have been written
C5_Witness ==
  /\ pc = "next" /\ Cur = File_a /\ FullRead
  /\ Len(CurLines) = 2
  /\ CurLines[2].start = ToWord(9000) /\ CurLines[2].end = ToWord(15000)

\* C6: when the file could not be opened, the error load raises differs
\* from the format error it raises for a size mismatch.
C6_IOErrorDistinct ==
  (thrown # NoError /\ f.state = "failed") => thrown # FormatError(Cur)

\* C7: once load has returned or raised, its file handle is not open.
C7_HandleClosed ==
  (pc \in {"emit", "next"} \/ thrown # NoError) => f.state # "open"

\* C8: a record whose read was short is not byte-order converted, returned
\* or used for output.
C8_PartialRecordUnused ==
  ~(/\ pc \in {"load_slices", "emit", "next"}
    /\ IsOt(Cur)
    /\ f.gcount < numBytes)

\* the bytes of the record at offset off, width w, are the file's, in the
\* host's order: one swap on a little-endian host, none on a big-endian
ConvertedOnce(off, w) ==
  \A k \in 0..(w - 1) :
    data[off + k] = Disk[Cur][IF littleEndian THEN off + w - 1 - k ELSE off + k]

\* C9: after load has returned for a well-formed record that was read
\* whole, header, unknown, quantize and every slice from sliceCount on hold
\* the file's bytes, and each listed scalar and each slice below sliceCount
\* has been converted exactly once.
C9_Frame ==
  (Returned /\ FullRead /\ WellFormed) =>
     LET n == Records[Cur].sliceCount
     IN /\ \A k \in 0..(OffTempo - 1) : data[k] = Disk[Cur][k]
        /\ data[OffQuantize] = Disk[Cur][OffQuantize]
        /\ \A k \in SliceOff(n)..(OffSliceCount - 1) : data[k] = Disk[Cur][k]
        /\ \A x \in 1..Len(ScalarOffs32) : ConvertedOnce(ScalarOffs32[x], 4)
        /\ \A x \in 1..Len(ScalarOffs16) : ConvertedOnce(ScalarOffs16[x], 2)
        /\ \A j \in 0..(n - 1) : \A c \in 0..2 : ConvertedOnce(SliceOff(j) + 4 * c, 4)

\* a two-slice record on a little-endian host: slot 2 still holds the
\* file's stale bytes
C9_Witness ==
  /\ pc = "emit" /\ littleEndian /\ Cur = File_a /\ FullRead
  /\ \A k \in SliceOff(2)..(SliceOff(3) - 1) : data[k] = StaleByte(k)

\* C10: every index the conversion loop of load uses is inside slices[].
C10_IndexInBounds ==
  (pc = "load_slices" /\ SliceLoopCond(i, data)) => i < NumSlices
====
